---- MODULE Spec2Model ----
(***************************************************************************)
(* The sysfs feature source of node-feature-discovery, in its three        *)
(* revisions: source/sysfs/sysfs.go (bounded read, export-time regexp),    *)
(* part_000 (whole-file read, sanitised value) and part_001 (stat first,   *)
(* convertToLabel, segment-wise name truncation).                          *)
(*                                                                         *)
(* A Go string is modelled as a sequence of one-character strings, one per *)
(* byte; the alphabet is ASCII, so bytes and runes coincide.               *)
(***************************************************************************)
EXTENDS Integers, Sequences, FiniteSets

VARIABLES
    variant,    \* which revision of the module runs
    config,     \* s.config.SysfsWhitelist
    fs,         \* the sysfs tree: real path -> node
    features,   \* s.features
    ret,        \* what the last call returned
    op,         \* the last call made on the source
    dropped,    \* the last call was a Discover that discarded an entry of the run before
    arg,        \* input of the function under study
    out1,       \* its first result
    out2,       \* its second result
    phase       \* position of the function study

vars == <<variant, config, fs, features, ret, op, dropped,
          arg, out1, out2, phase>>

Variants == {"sysfs.go", "part_000", "part_001"}

-----------------------------------------------------------------------------
(* Character classes of the regular expressions.                           *)

\* letters and digits
Alnum == {"a", "b", "s", "x", "y"}

\* the class [-A-Za-z0-9_.]
LabelChars == Alnum \cup {"-", "_", "."}

\* the class [-A-Za-z0-9]
EdgeChars == Alnum \cup {"-"}

\* what strings.TrimSpace removes
Space == {" ", "\n"}

\* every character of the model
Chars == LabelChars \cup Space \cup {"/", "#"}

-----------------------------------------------------------------------------
(* Bounds of the model.                                                    *)

MaxPrefix == 1
MaxSuffix == 2
MaxPathPrefix == 2
MaxPathSuffix == 1
LongFrom == 57
LongSpan == 7
MaxWhitelist == 2

-----------------------------------------------------------------------------
(* Program constants.                                                      *)

MaxLabelLen == 62
ReadBufLen == 62
NameCap == 64
NameCap001 == 55
SysPrefixLen == 4

-----------------------------------------------------------------------------
(* Strings.                                                                *)

Indices(s) == [i \in 1..Len(s) |-> i]

Drop(s, n) == SubSeq(s, n + 1, Len(s))

\* s[:n], all of s when it is shorter
Take(s, n) == IF Len(s) > n THEN SubSeq(s, 1, n) ELSE s

HasPrefix(s, p) == Len(s) >= Len(p) /\ SubSeq(s, 1, Len(p)) = p

\* regexp `[^keep]` ReplaceAllString(s, "_")
ReplaceEach(s, keep) == [i \in 1..Len(s) |-> IF s[i] \in keep THEN s[i] ELSE "_"]

\* regexp `[^keep]+` ReplaceAllString(s, "_"): every maximal run becomes one "_"
ReplaceRuns(s, keep) ==
    LET idx == SelectSeq(Indices(s),
                         LAMBDA i : s[i] \in keep \/ i = 1 \/ s[i - 1] \in keep)
    IN  [j \in 1..Len(idx) |-> IF s[idx[j]] \in keep THEN s[idx[j]] ELSE "_"]

\* regexp `^[^keep]+` ReplaceAllString(s, "")
StripLeading(s, keep) ==
    LET n == Len(s)
        first == IF \E i \in 1..n : s[i] \in keep
                 THEN CHOOSE i \in 1..n :
                          s[i] \in keep /\ \A j \in 1..(i - 1) : s[j] \notin keep
                 ELSE n + 1
    IN  SubSeq(s, first, n)

\* regexp `[^keep]+$` ReplaceAllString(s, "")
StripTrailing(s, keep) ==
    LET n == Len(s)
        last == IF \E i \in 1..n : s[i] \in keep
                THEN CHOOSE i \in 1..n :
                         s[i] \in keep /\ \A j \in (i + 1)..n : s[j] \notin keep
                ELSE 0
    IN  SubSeq(s, 1, last)

\* strings.TrimSpace
TrimSpace(s) == StripTrailing(StripLeading(s, Chars \ Space), Chars \ Space)

\* strings.Index(s, c): 0-based position of the first c, -1 when there is none
Index(s, c) ==
    IF \E i \in 1..Len(s) : s[i] = c
    THEN (CHOOSE i \in 1..Len(s) : s[i] = c /\ \A j \in 1..(i - 1) : s[j] # c) - 1
    ELSE -1

\* strings.Replace(attr, "/", ".", -1)
ReplaceSlashes(s) == [i \in 1..Len(s) |-> IF s[i] = "/" THEN "." ELSE s[i]]

-----------------------------------------------------------------------------
(* Paths.                                                                  *)

\* filepath.IsAbs
IsAbs(p) == Len(p) > 0 /\ p[1] = "/"

\* the elements of p between its separators
Components(p) ==
    LET cuts == <<0>> \o SelectSeq(Indices(p), LAMBDA i : p[i] = "/") \o <<Len(p) + 1>>
    IN  [k \in 1..(Len(cuts) - 1) |-> SubSeq(p, cuts[k] + 1, cuts[k + 1] - 1)]

RECURSIVE CleanStack(_, _, _)
\* filepath.Clean on a rooted path: "" and "." are dropped, ".." removes the
\* element before it and is dropped at the root
CleanStack(comps, k, stack) ==
    IF k > Len(comps) THEN stack
    ELSE LET c == comps[k]
         IN  IF c = <<>> \/ c = <<".">> THEN CleanStack(comps, k + 1, stack)
             ELSE IF c = <<".", ".">>
                  THEN CleanStack(comps, k + 1,
                                  IF stack = <<>> THEN stack
                                  ELSE SubSeq(stack, 1, Len(stack) - 1))
                  ELSE CleanStack(comps, k + 1, Append(stack, c))

RECURSIVE JoinComponents(_, _)
JoinComponents(stack, k) ==
    IF k > Len(stack) THEN <<>>
    ELSE (IF k = 1 THEN <<>> ELSE <<"/">>) \o stack[k] \o JoinComponents(stack, k + 1)

\* filepath.Clean, for the rooted paths Discover gives it
Clean(p) == <<"/">> \o JoinComponents(CleanStack(Components(p), 1, <<>>), 1)

\* filepath.Join("/", attr): the non-empty elements joined by "/", then Clean
Join(attr) == Clean(IF attr = <<>> THEN <<"/">> ELSE <<"/", "/">> \o attr)

\* the whitelist entry as Discover hands it on: attr after Join and Clean
\* (part_001 first cuts a leading "/sys")
CleanAttr(v, entry) ==
    LET a0 == IF v = "part_001" /\ HasPrefix(entry, <<"/", "s", "y", "s">>)
              THEN Drop(entry, SysPrefixLen) ELSE entry
        a1 == IF ~IsAbs(a0) THEN Join(a0) ELSE a0
    IN  Clean(a1)

-----------------------------------------------------------------------------
(* Names and values.                                                       *)

\* buildAttributeName of sysfs.go and part_000
buildAttributeName64(attr) ==
    LET name == Drop(ReplaceSlashes(attr), 1)
    IN  IF Len(name) > NameCap THEN Drop(name, Len(name) - NameCap) ELSE name

\* buildAttributeName of part_001
buildAttributeName001(attr) ==
    LET name == Drop(ReplaceSlashes(attr), 1)
    IN  IF Len(name) > NameCap001
        THEN LET start == Len(name) - NameCap001
                 offset == Index(Drop(name, start), ".") + 1
             IN  Drop(name, start + offset)
        ELSE name

buildAttributeName(v, attr) ==
    IF v = "part_001" THEN buildAttributeName001(attr) ELSE buildAttributeName64(attr)

\* convertToLabel with the trailing strip made before the cut to 62
convertToLabelStripThenCut(str) ==
    IF str = <<>> THEN str
    ELSE LET v1 == StripLeading(str, EdgeChars)
             v2 == StripTrailing(ReplaceRuns(v1, LabelChars), EdgeChars)
         IN  Take(v2, MaxLabelLen)

\* convertToLabel of part_001
convertToLabel(str) ==
    IF str = <<>> THEN str
    ELSE LET v1 == StripLeading(str, EdgeChars)
             v2 == ReplaceRuns(v1, LabelChars)
             v3 == Take(v2, MaxLabelLen)
         IN  StripTrailing(v3, EdgeChars)

\* the value part_000's readSingleParameter makes of the file's bytes
sanitizeData000(data) ==
    LET v1 == StripLeading(data, LabelChars)
        v2 == ReplaceRuns(v1, LabelChars)
    IN  Take(v2, MaxLabelLen)

sanitize(v, x) == IF v = "part_001" THEN convertToLabel(x) ELSE sanitizeData000(x)

-----------------------------------------------------------------------------
(* The inputs the functions are studied on: a short prefix, a run of "a"   *)
(* that carries the string to the length limits, a short suffix.           *)

SeqsUpTo(S, n) == UNION {[1..k -> S] : k \in 0..n}

Pad(n) == [i \in 1..n |-> "a"]

PadLens == {0} \cup (LongFrom..(LongFrom + LongSpan))

LabelAlphabet == {"a", "-", "_", ".", " "}

LabelInputs ==
    {p \o Pad(n) \o s : p \in SeqsUpTo(LabelAlphabet, MaxPrefix),
                        n \in PadLens,
                        s \in SeqsUpTo(LabelAlphabet, MaxSuffix)}

PathAlphabet == {"/", ".", "a"}

PathInputs ==
    {p \o Pad(n) \o s :
        p \in SeqsUpTo(PathAlphabet, MaxPathPrefix) \cup {<<"/", "s", "y", "s", "/">>},
        n \in PadLens,
        s \in SeqsUpTo(PathAlphabet, MaxPathSuffix)}

-----------------------------------------------------------------------------
(* The sysfs tree.                                                         *)

SysfsRoot == <<"/", "s", "y", "s">>

\* hostpath.SysfsDir.Path(attr): the logical path under the mounted sysfs
SysfsDirPath(attr) == IF attr = <<"/">> THEN SysfsRoot ELSE SysfsRoot \o attr

Absent == [kind |-> "absent", err |-> "none", data |-> <<>>]
Dir == [kind |-> "dir", err |-> "none", data |-> <<>>]
File(e, d) == [kind |-> "file", err |-> e, data |-> d]

\* a file's bytes: nothing, white space only, or a long line with characters
\* of every class
Contents ==
    { <<>>,
      <<"\n">>,
      <<" ", "-", "x", " ", "y", ".">> \o Pad(LongFrom) \o <<"\n">> }

NodeStates ==
    {Absent, Dir, File("perm", <<>>), File("io", <<>>)} \cup {File("none", d) : d \in Contents}

\* the nodes that come and go, in a tree where two paths share a name:
\* /a/_ and /a._ are both named a._
SharedNameNodes ==
    { SysfsRoot \o <<"/", "a", "/", "_">>,
      SysfsRoot \o <<"/", "a", ".", "_">> }

\* and in a tree where two names differ only by a character no label may
\* hold: /a/_ is named a._ and /a/# is named a.#
ExportNodes ==
    { SysfsRoot \o <<"/", "a", "/", "_">>,
      SysfsRoot \o <<"/", "a", "/", "#">> }

\* what is at path: a node of the tree, a directory above one, or nothing
Node(f, path) ==
    IF path \in DOMAIN f THEN f[path]
    ELSE IF path = SysfsRoot
            \/ \E q \in DOMAIN f : f[q].kind # "absent" /\ HasPrefix(q, path \o <<"/">>)
         THEN Dir
         ELSE Absent

-----------------------------------------------------------------------------
(* Reading one parameter: [err, val].                                      *)

Failed == [err |-> TRUE, val |-> <<>>]
Read(v) == [err |-> FALSE, val |-> v]

\* sysfs.go: os.Open, one Read of at most 62 bytes, TrimSpace.  Open fails on a
\* missing or unreadable node; Read fails on a directory, on an I/O error and,
\* with io.EOF, on a file with no bytes.
readSingleParameterSysfs(f, path) ==
    LET n == Node(f, path)
    IN  IF n.kind = "absent" \/ n.err = "perm" THEN Failed
        ELSE IF n.kind = "dir" \/ n.err = "io" \/ n.data = <<>> THEN Failed
        ELSE Read(TrimSpace(Take(n.data, ReadBufLen)))

\* part_000: os.ReadFile, then the leading strip, the collapse and the cut
readSingleParameter000(f, path) ==
    LET n == Node(f, path)
    IN  IF n.kind # "file" \/ n.err # "none" THEN Failed
        ELSE Read(sanitizeData000(n.data))

\* part_001's reader without the directory case: reading a directory fails
readSingleParameter001DirFails(f, path) ==
    LET n == Node(f, path)
    IN  IF n.kind # "file" THEN Failed
        ELSE IF n.err = "perm" THEN Read(<<>>)
        ELSE IF n.err # "none" THEN Failed
        ELSE Read(convertToLabel(n.data))

\* part_001: os.Stat, a directory and a permission-denied file read as ""
readSingleParameter001(f, path) ==
    LET n == Node(f, path)
    IN  IF n.kind = "absent" THEN Failed
        ELSE IF n.kind = "dir" THEN Read(<<>>)
        ELSE IF n.err = "perm" THEN Read(<<>>)
        ELSE IF n.err # "none" THEN Failed
        ELSE Read(convertToLabel(n.data))

readSingleParameter(v, f, path) ==
    IF v = "sysfs.go" THEN readSingleParameterSysfs(f, path)
    ELSE IF v = "part_000" THEN readSingleParameter000(f, path)
    ELSE readSingleParameter001(f, path)

-----------------------------------------------------------------------------
(* The source.  A Go map is a set of <<key, value>> pairs, one per key.    *)

Keys(m) == {e[1] : e \in m}

\* a map store that keeps the value a key already has
PutKeepFirst(m, k, v) == IF k \in {e[1] : e \in m} THEN m ELSE m \cup {<<k, v>>}

\* m[k] = v
Put(m, k, v) == {e \in m : e[1] # k} \cup {<<k, v>>}

DefaultWhitelist == << <<>> >>

\* s.features: nil, NewFeatures(), or with Attributes["attribute"] set
NilFeatures == [isNil |-> TRUE, hasAttribute |-> FALSE, Elements |-> {}]
NewFeatures == [isNil |-> FALSE, hasAttribute |-> FALSE, Elements |-> {}]

RECURSIVE DiscoverLoopAbort(_, _, _, _, _)
\* the loop of Discover with "return err" where the code has "continue"
DiscoverLoopAbort(v, wl, f, k, elems) ==
    IF k > Len(wl) THEN [err |-> FALSE, elems |-> elems]
    ELSE LET attr == CleanAttr(v, wl[k])
             r == readSingleParameter(v, f, SysfsDirPath(attr))
         IN  IF r.err THEN [err |-> TRUE, elems |-> elems]
             ELSE DiscoverLoopAbort(v, wl, f, k + 1,
                                    Put(elems, buildAttributeName(v, attr), r.val))

RECURSIVE DiscoverLoop(_, _, _, _, _)
\* the loop of Discover from entry k on: [err, elems]
DiscoverLoop(v, wl, f, k, elems) ==
    IF k > Len(wl) THEN [err |-> FALSE, elems |-> elems]
    ELSE LET attr == CleanAttr(v, wl[k])
             r == readSingleParameter(v, f, SysfsDirPath(attr))
         IN  IF r.err THEN DiscoverLoop(v, wl, f, k + 1, elems)
             ELSE DiscoverLoop(v, wl, f, k + 1,
                               Put(elems, buildAttributeName(v, attr), r.val))

\* the iteration orders of a map
Orders(m) ==
    {o \in [1..Cardinality(m) -> m] : \A e \in m : \E i \in 1..Cardinality(m) : o[i] = e}

\* what GetLabels does to a key and to a value
exportString(v, str) == IF v = "sysfs.go" THEN ReplaceEach(str, LabelChars) ELSE str

RECURSIVE LabelsLoop(_, _, _, _)
\* the loop of GetLabels over the elements in order o, from position i on
LabelsLoop(v, o, i, labels) ==
    IF i > Len(o) THEN labels
    ELSE LabelsLoop(v, o, i + 1,
                    Put(labels, exportString(v, o[i][1]), exportString(v, o[i][2])))

-----------------------------------------------------------------------------
(* The whitelists SetConfig is given.                                      *)

WhitelistEntries ==
    { <<"a", "/", "_">>,                           \* a/_
      <<"/", "a", ".", "_">>,                      \* /a._
      <<"a", "/", "x", "/", ".", ".", "/", "#">>,  \* a/x/../#
      <<"/", "s", "y", "s", "/", "a", "/", "/", ".", "/", "_">>  \* /sys/a//./_
    }

Whitelists == SeqsUpTo(WhitelistEntries, MaxWhitelist)

\* the values SetConfig may be handed: a *Config, or a value of another type
ConfigValues ==
    {[type |-> "Config", whitelist |-> wl] : wl \in Whitelists}
        \cup {[type |-> "other", whitelist |-> <<>>]}

NoRet == [err |-> FALSE, labels |-> {}]

StudyIdle == arg = <<>> /\ out1 = <<>> /\ out2 = <<>> /\ phase = "idle"

\* the source as constructed, in a tree with the nodes given, none there yet
SourceIdle(nodes) ==
    /\ config = DefaultWhitelist
    /\ fs = [n \in nodes |-> Absent]
    /\ features = NilFeatures
    /\ ret = NoRet
    /\ op = "init"
    /\ dropped = FALSE

Init == variant \in Variants /\ SourceIdle(SharedNameNodes) /\ StudyIdle

InitExport == variant \in Variants /\ SourceIdle(ExportNodes) /\ StudyIdle

\* the tree changes under the source
FsChange ==
    /\ op # "panic"
    /\ \E n \in DOMAIN fs, st \in NodeStates :
          /\ fs[n] # st
          /\ fs' = [fs EXCEPT ![n] = st]
    /\ op' = "FsChange"
    /\ ret' = NoRet
    /\ dropped' = FALSE
    /\ UNCHANGED <<variant, config, features, arg, out1, out2, phase>>

SetConfig ==
    /\ op # "panic"
    /\ \E conf \in ConfigValues :
          IF conf.type = "Config"
          THEN config' = conf.whitelist /\ op' = "SetConfig"
          ELSE config' = config /\ op' = "panic"
    /\ ret' = NoRet
    /\ dropped' = FALSE
    /\ UNCHANGED <<variant, fs, features, arg, out1, out2, phase>>

Discover ==
    /\ op # "panic"
    /\ LET r == DiscoverLoop(variant, config, fs, 1, {})
       IN  /\ features' = [isNil |-> FALSE, hasAttribute |-> TRUE, Elements |-> r.elems]
           /\ ret' = [err |-> r.err, labels |-> {}]
           /\ dropped' = (Keys(features.Elements) \ Keys(r.elems) # {})
    /\ op' = "Discover"
    /\ UNCHANGED <<variant, config, fs, arg, out1, out2, phase>>

\* GetFeatures, as GetLabels calls it
GetFeatures == IF features.isNil THEN NewFeatures ELSE features

GetLabels ==
    /\ op # "panic"
    /\ features' = GetFeatures
    /\ \E o \in Orders(GetFeatures.Elements) :
          ret' = [err |-> FALSE, labels |-> LabelsLoop(variant, o, 1, {})]
    /\ op' = "GetLabels"
    /\ dropped' = FALSE
    /\ UNCHANGED <<variant, config, fs, arg, out1, out2, phase>>

Next == FsChange \/ SetConfig \/ Discover \/ GetLabels

Spec == Init /\ [][Next]_vars

SpecExport == InitExport /\ [][Next]_vars

-----------------------------------------------------------------------------
(* The value sanitizers, applied once and again.                           *)

InitLabel ==
    /\ variant \in {"part_000", "part_001"}
    /\ SourceIdle(SharedNameNodes)
    /\ arg \in LabelInputs
    /\ out1 = <<>>
    /\ out2 = <<>>
    /\ phase = "input"

Sanitize ==
    /\ phase = "input"
    /\ out1' = sanitize(variant, arg)
    /\ phase' = "once"
    /\ UNCHANGED <<variant, config, fs, features, ret, op, dropped, arg, out2>>

Resanitize ==
    /\ phase = "once"
    /\ out2' = sanitize(variant, out1)
    /\ phase' = "twice"
    /\ UNCHANGED <<variant, config, fs, features, ret, op, dropped, arg, out1>>

NextLabel == Sanitize \/ Resanitize

SpecLabel == InitLabel /\ [][NextLabel]_vars

-----------------------------------------------------------------------------
(* The name of a whitelist entry: Discover's path steps, then               *)
(* buildAttributeName.                                                     *)

InitName ==
    /\ variant \in Variants
    /\ SourceIdle(SharedNameNodes)
    /\ arg \in PathInputs
    /\ out1 = <<>>
    /\ out2 = <<>>
    /\ phase = "input"

ResolvePath ==
    /\ phase = "input"
    /\ out1' = CleanAttr(variant, arg)
    /\ phase' = "cleaned"
    /\ UNCHANGED <<variant, config, fs, features, ret, op, dropped, arg, out2>>

BuildName ==
    /\ phase = "cleaned"
    /\ out2' = buildAttributeName(variant, out1)
    /\ phase' = "named"
    /\ UNCHANGED <<variant, config, fs, features, ret, op, dropped, arg, out1>>

NextName == ResolvePath \/ BuildName

SpecName == InitName /\ [][NextName]_vars

-----------------------------------------------------------------------------
(* What one whitelist entry of the current configuration comes to.         *)

EntryAttr(k) == CleanAttr(variant, config[k])
EntryNode(k) == Node(fs, SysfsDirPath(EntryAttr(k)))
EntryRead(k) == readSingleParameter(variant, fs, SysfsDirPath(EntryAttr(k)))
EntryName(k) == buildAttributeName(variant, EntryAttr(k))
Entries == 1..Len(config)

\* entry k is recorded and no later entry of the run is recorded under its name
LastOfName(k) ==
    /\ ~EntryRead(k).err
    /\ \A j \in Entries : j > k => EntryRead(j).err \/ EntryName(j) # EntryName(k)

\* no entry of the run is recorded under the name of entry k
NoneOfName(k) == \A j \in Entries : EntryRead(j).err \/ EntryName(j) # EntryName(k)

AllIn(str, class) == \A i \in 1..Len(str) : str[i] \in class

-----------------------------------------------------------------------------
(* Claims.                                                                 *)

\* C1: in every revision, after Discover every key and every value of the map
\* GetLabels returns holds only characters of [-A-Za-z0-9_.].
C1_ExportCharset ==
    op = "GetLabels" =>
        \A e \in ret.labels : AllIn(e[1], LabelChars) /\ AllIn(e[2], LabelChars)

\* C2: convertToLabel returns at most 62 characters, all of [-A-Za-z0-9_.],
\* and a non-empty result begins and ends with a letter or a digit.
C2_ConvertToLabelWellFormed ==
    (phase = "once" /\ variant = "part_001") =>
        /\ Len(out1) <= MaxLabelLen
        /\ AllIn(out1, LabelChars)
        /\ out1 # <<>> => out1[1] \in Alnum /\ out1[Len(out1)] \in Alnum

\* C3: sanitizing a sanitized value changes nothing, for convertToLabel and
\* for part_000's strip, collapse and cut.
C3_Idempotent == phase = "twice" => out2 = out1

\* C3 witness: a value longer than 62 that convertToLabel cut and then
\* stripped at the end has been sanitized twice.
C3_Witness ==
    /\ phase = "twice"
    /\ variant = "part_001"
    /\ Len(arg) > MaxLabelLen
    /\ Len(out1) < MaxLabelLen
    /\ out1 # <<>>

\* C4: the name buildAttributeName returns for a cleaned path is no longer
\* than the cap (64, or 55 in part_001) and never begins with ".".
C4_NameCapAndNoLeadingDot ==
    phase = "named" =>
        /\ Len(out2) <= (IF variant = "part_001" THEN NameCap001 ELSE NameCap)
        /\ out2 # <<>> => out2[1] # "."

\* C5: when part_001's buildAttributeName truncates, the name it returns is
\* a suffix of the dotted name that begins right after one of its ".".
C5_CutOnSegmentBoundary ==
    LET dotted == Drop(ReplaceSlashes(out1), 1)
        cut == Len(dotted) - Len(out2)
    IN  (phase = "named" /\ variant = "part_001" /\ Len(dotted) > NameCap001) =>
            /\ cut >= 1
            /\ out2 = Drop(dotted, cut)
            /\ dotted[cut] = "."

\* C6 as stated: in part_001, after Discover, an entry whose node is a
\* directory or a permission-denied file has its name mapped to "", and an
\* entry whose read fails otherwise has its name absent.
C6_AsStated ==
    (variant = "part_001" /\ op = "Discover") =>
        \A k \in Entries :
            /\ (EntryNode(k).kind = "dir" \/ EntryNode(k).err = "perm")
                   => <<EntryName(k), <<>>>> \in features.Elements
            /\ EntryNode(k).err = "io" => EntryName(k) \notin Keys(features.Elements)

\* C6 amended: the same, for an entry whose name no later entry of the run is
\* recorded under (its "" stays), and for a failing entry whose name no entry
\* of the run is recorded under (its name is absent).
C6_EmptyValueForDirAndDenied ==
    (variant = "part_001" /\ op = "Discover") =>
        \A k \in Entries :
            /\ ~EntryRead(k).err <=> EntryNode(k).kind \in {"dir", "file"} /\ EntryNode(k).err # "io"
            /\ ((EntryNode(k).kind = "dir" \/ EntryNode(k).err = "perm") /\ LastOfName(k))
                   => <<EntryName(k), <<>>>> \in features.Elements
            /\ (EntryNode(k).err = "io" /\ NoneOfName(k))
                   => EntryName(k) \notin Keys(features.Elements)

\* C6 witness: a run of part_001 over a directory and a permission-denied
\* file recorded the value "" for them.
C6_Witness ==
    /\ variant = "part_001"
    /\ op = "Discover"
    /\ \E k, j \in Entries :
          /\ EntryNode(k).kind = "dir"
          /\ EntryNode(j).err = "perm"
          /\ EntryName(k) # <<>>
          /\ {<<EntryName(k), <<>>>>, <<EntryName(j), <<>>>>} \subseteq features.Elements

\* the whitelist without its failing entries
Surviving == SelectSeq(config, LAMBDA e :
                 ~readSingleParameter(variant, fs, SysfsDirPath(CleanAttr(variant, e))).err)

\* C7: Discover returns nil whatever fails; an entry on a path that does not
\* exist adds nothing; the result is the one of the whitelist without its
\* failing entries.
C7_FailureIsolation ==
    op = "Discover" =>
        /\ ~ret.err
        /\ features.Elements = DiscoverLoop(variant, Surviving, fs, 1, {}).elems
        /\ \A n \in Keys(features.Elements) :
               \E k \in Entries : ~EntryRead(k).err /\ EntryName(k) = n
        /\ \A k \in Entries :
               EntryNode(k).kind = "absent" => EntryRead(k).err
        /\ \A k \in Entries :
               (EntryNode(k).kind = "absent" /\ NoneOfName(k))
                   => EntryName(k) \notin Keys(features.Elements)

\* C7 witness: a run whose first entry is on a missing path recorded its
\* second entry.
C7_Witness ==
    /\ op = "Discover"
    /\ Len(config) >= 2
    /\ EntryNode(1).kind = "absent"
    /\ ~EntryRead(2).err
    /\ EntryName(2) \in Keys(features.Elements)

\* C8: after a Discover the result holds exactly what this run's whitelist
\* and tree yield, nothing of an earlier run, and under a name that several
\* entries yield the value of the last of them.
C8_FullReplace ==
    op = "Discover" =>
        /\ ~features.isNil
        /\ features.hasAttribute
        /\ features.Elements =
               {<<EntryName(k), EntryRead(k).val>> : k \in {i \in Entries : LastOfName(i)}}

\* C8 witness: a run discarded an entry of the run before it, and in it two
\* readable entries with different values share a name.
C8_Witness ==
    /\ op = "Discover"
    /\ dropped
    /\ \E j, k \in Entries :
          /\ j < k
          /\ ~EntryRead(j).err
          /\ ~EntryRead(k).err
          /\ EntryName(j) = EntryName(k)
          /\ EntryRead(j).val # EntryRead(k).val

\* C9: in sysfs.go an entry on a regular file that opens and reads without
\* I/O error is never skipped, whatever its content, and is recorded with the
\* first 62 bytes of the content, trimmed.
C9_ReadableFileRecorded ==
    (variant = "sysfs.go" /\ op = "Discover") =>
        \A k \in Entries :
            (EntryNode(k).kind = "file" /\ EntryNode(k).err = "none") =>
                /\ ~EntryRead(k).err
                /\ EntryName(k) \in Keys(features.Elements)
                /\ LastOfName(k) =>
                       <<EntryName(k),
                         TrimSpace(Take(EntryNode(k).data, ReadBufLen))>>
                           \in features.Elements

\* C10: in sysfs.go the map GetLabels returns is the same under every
\* iteration order of the elements.
C10_LabelsDeterministic ==
    (variant = "sysfs.go" /\ op = "GetLabels") =>
        \A o \in Orders(features.Elements) : LabelsLoop(variant, o, 1, {}) = ret.labels

====
